---- MODULE Spec2Model ----
(***************************************************************************)
(* State-machine model of app.py, the scrum bot: the persisted documents   *)
(* (config.json, users.json, answers.json, admins.json), the module-level  *)
(* configuration mirrors, the scheduler's job store, the chat command      *)
(* handlers and the two jobs.                                              *)
(*                                                                         *)
(* Encodings.  A JSON object / Python dict is a sequence of [k, v] records *)
(* in insertion order.  A date string "YYYY-MM-DD" is the tuple of its     *)
(* three numeric fields; a tuple of another length, or with a month or day *)
(* out of range, is a string strptime rejects.  A datetime.date is its     *)
(* proleptic Gregorian ordinal (date.toordinal()).  A token of a command   *)
(* argument is [num, val]: num says whether int() accepts it.              *)
(***************************************************************************)
EXTENDS Integers, Sequences, FiniteSets, TLC

\* ---------------------------------------------------------------- bounds
MaxTeam   == 3     \* roster length an admin command may grow the file to
MaxRanges == 2     \* vacation ranges per member an admin command may reach
MaxDays   == 2     \* calendar days the clock advances past FirstDay
MaxEdits  == 2     \* edits of config.json made outside the process
MaxMsgs   == 2     \* private texts received in one behaviour
MaxWrites == 2     \* saves of config.json by admin commands in one behaviour
MaxReloads == 1    \* /cfg_reload handlers followed statement by statement
MaxRuns   == 2     \* job runs followed statement by statement
MaxTexts  == 3     \* private texts received in one behaviour of the summary workflow

\* ------------------------------------------------------- dict (JSON object)
DictKeys(d) == { d[i].k : i \in DOMAIN d }

DictHas(d, key) == key \in DictKeys(d)

DictGet(d, key, default) ==
  IF DictHas(d, key) THEN d[CHOOSE i \in DOMAIN d : d[i].k = key].v ELSE default

DictSetAppend(d, key, val) == Append(d, [k |-> key, v |-> val])

\* d[key] = val: an existing key keeps its position, a new key goes last
DictSet(d, key, val) ==
  IF DictHas(d, key)
    THEN [ i \in DOMAIN d |-> IF d[i].k = key THEN [k |-> key, v |-> val] ELSE d[i] ]
    ELSE Append(d, [k |-> key, v |-> val])

\* d.pop(key, None)
DictPop(d, key) == SelectSeq(d, LAMBDA e : e.k # key)

\* d.setdefault(key, val)
DictSetDefault(d, key, val) == IF DictHas(d, key) THEN d ELSE DictSet(d, key, val)

SeqToSet(s) == { s[i] : i \in DOMAIN s }

NoDupKeys(d) == \A i, j \in DOMAIN d : d[i].k = d[j].k => i = j

\* ------------------------------------------------------------------ dates
IsLeap(y) == (y % 4 = 0) /\ ((y % 100 # 0) \/ (y % 400 = 0))

DaysInMonth(y, m) ==
  CASE m \in {1, 3, 5, 7, 8, 10, 12} -> 31
    [] m \in {4, 6, 9, 11}           -> 30
    [] OTHER                         -> IF IsLeap(y) THEN 29 ELSE 28

RECURSIVE DaysBeforeMonth(_, _)
DaysBeforeMonth(y, m) ==
  IF m <= 1 THEN 0 ELSE DaysBeforeMonth(y, m - 1) + DaysInMonth(y, m - 1)

DaysBeforeYear(y) ==
  365 * (y - 1) + ((y - 1) \div 4) - ((y - 1) \div 100) + ((y - 1) \div 400)

\* whether strptime(s, "%Y-%m-%d") accepts s
DateOK(s) ==
  /\ Len(s) = 3
  /\ s[1] \in 1..9999
  /\ s[2] \in 1..12
  /\ s[3] \in 1..DaysInMonth(s[1], s[2])

\* _parse_date(s) for a string it accepts
_parse_date(s) == DaysBeforeYear(s[1]) + DaysBeforeMonth(s[1], s[2]) + s[3]

\* date.isoweekday(): 1 = Monday .. 7 = Sunday
isoweekday(d) == IF d % 7 = 0 THEN 7 ELSE d % 7

\* ------------------------------------------------------------------ names
Lower(s) ==
  CASE s = "Aya" -> "aya"
    [] s = "Bek" -> "bek"
    [] s = "Cem" -> "cem"
    [] OTHER     -> s

RECURSIVE canon_from(_, _, _)
canon_from(raw, team, i) ==
  IF i > Len(team) THEN "None"
  ELSE IF Lower(team[i]) = Lower(raw) THEN team[i]
  ELSE canon_from(raw, team, i + 1)

\* canon_name(raw, team): the first roster entry equal to raw ignoring case;
\* "None" stands for Python's None
canon_name(raw, team) == canon_from(raw, team, 1)

\* ----------------------------------------------------------------- tokens
Tok(n) == [num |-> TRUE, val |-> n]
Junk   == [num |-> FALSE, val |-> 0]

\* parse_hhmm without its range test
hhmm_lax(s) == Len(s) = 2 /\ s[1].num /\ s[2].num

\* parse_hhmm(s) returns normally: two int() tokens in range
hhmm_ok(s) ==
  /\ Len(s) = 2
  /\ s[1].num /\ s[2].num
  /\ 0 <= s[1].val /\ s[1].val <= 23
  /\ 0 <= s[2].val /\ s[2].val <= 59

parse_hhmm(s) == << s[1].val, s[2].val >>

\* ------------------------------------------------------------------ state
VARIABLES
  cfgFile,      \* config.json: [status, body]; body maps the keys present to values
  usersFile,    \* users.json: dict member -> chat id
  answersFile,  \* answers.json: dict date -> dict member -> text
  adminsFile,   \* admins.json: list of chat ids
  mem,          \* the module-level mirrors CONFIG, TEAM, ..., LIVE_SCRUM_AT
  jobs,         \* the scheduler's job store: list of [id, hour, minute]
  started,      \* whether on_start has run
  now,          \* today's date in TIMEZONE, as an ordinal
  last,         \* what the most recently finished handler or job did
  submitted,    \* history: dict (date, member) -> the text recorded last for it
  workers,      \* the bot's worker threads: the handler each is running
  runs,         \* the job executions in progress, per executor
  budget        \* what is left of the bounds: [edits, days, msgs, writes, reloads, runs]

vars == << cfgFile, usersFile, answersFile, adminsFile, mem, jobs, started, now,
           last, submitted, workers, runs, budget >>

\* ------------------------------------------------------------- environment
GROUP_CHAT_ID == 100
ADMIN_PIN     == "changeme"

Names == {"Aya", "aya", "Bek", "Cem"}
Pins  == {"changeme", "0000"}
Texts == {"done", " done ", "blocked"}

\* str.strip()
strip(t) == IF t = " done " THEN "done" ELSE t

\* who may write to the bot: two people in private chats, and the group chat
Senders == { [id |-> 1, type |-> "private"], [id |-> 2, type |-> "private"],
             [id |-> GROUP_CHAT_ID, type |-> "group"] }

FirstDay == _parse_date(<<2024, 6, 3>>)      \* a Monday

\* today_str(): the date string strptime would map back to today
today_str(d) ==
  LET y  == CHOOSE c \in 2023..2025 : DaysBeforeYear(c) < d /\ d <= DaysBeforeYear(c + 1)
      n  == d - DaysBeforeYear(y)
      mo == CHOOSE c \in 1..12 :
              DaysBeforeMonth(y, c) < n /\ n <= DaysBeforeMonth(y, c) + DaysInMonth(y, c)
  IN  << y, mo, n - DaysBeforeMonth(y, mo) >>

\* ------------------------------------------------------ config.json documents
RequiredKeys == {"TEAM", "WEEKLY_SCHEDULE", "PROMPT_HOUR", "PROMPT_MINUTE",
                 "SUMMARY_HOUR", "SUMMARY_MINUTE", "LIVE_SCRUM_AT"}

E(key, val) == [k |-> key, v |-> val]

Jun(d) == <<2024, 6, d>>

OkDoc(b) == [status |-> "ok", body |-> b]

MissingDoc   == [status |-> "missing",   body |-> << >>]
MalformedDoc == [status |-> "malformed", body |-> << >>]

\* the scenario of the documentation: Aya remote Mon and Wed, Bek Tue and Thu
BodyA ==
  [ TEAM            |-> <<"Aya", "Bek">>,
    WEEKLY_SCHEDULE |-> << E("Aya", <<1, 3>>), E("Bek", <<2, 4>>) >>,
    VACATIONS       |-> << E("Aya", << >>), E("Bek", << >>) >>,
    PROMPT_HOUR     |-> 9,  PROMPT_MINUTE  |-> 0,
    SUMMARY_HOUR    |-> 17, SUMMARY_MINUTE |-> 30,
    LIVE_SCRUM_AT   |-> << Tok(11), Tok(0) >> ]

\* another roster and other times; vacations under the key spelled VACITIONS;
\* Aya is scheduled but not in the roster, Bek is in the roster but not
\* scheduled; ranges that are unparseable, too short or inverted stand before
\* and between valid ones
BodyB ==
  [ TEAM            |-> <<"Bek", "Cem">>,
    WEEKLY_SCHEDULE |-> << E("Cem", <<1, 2, 3>>), E("Aya", <<2, 2>>) >>,
    VACITIONS       |-> << E("Cem", << <<Jun(31), Jun(4)>>, <<Jun(3)>>, <<Jun(4), Jun(4)>> >>),
                           E("Bek", << <<Jun(5), Jun(3)>>, <<Jun(3), <<2024, 6>> >> >>) >>,
    PROMPT_HOUR     |-> 10, PROMPT_MINUTE  |-> 15,
    SUMMARY_HOUR    |-> 18, SUMMARY_MINUTE |-> 0,
    LIVE_SCRUM_AT   |-> << Tok(12), Tok(0) >> ]

\* a roster of three: two members remote on the same day, one on vacation on
\* the first day, and a scheduled name that is not in the roster
BodyC ==
  [ TEAM            |-> <<"Aya", "Bek", "Cem">>,
    WEEKLY_SCHEDULE |-> << E("Aya", <<1, 2>>), E("aya", <<1>>), E("Bek", <<1>>),
                           E("Cem", <<1, 3>>) >>,
    VACATIONS       |-> << E("Cem", << <<Jun(3), Jun(3)>> >>) >>,
    PROMPT_HOUR     |-> 9,  PROMPT_MINUTE  |-> 30,
    SUMMARY_HOUR    |-> 17, SUMMARY_MINUTE |-> 0,
    LIVE_SCRUM_AT   |-> << Tok(11), Tok(30) >> ]

Without(b, key) == [ x \in (DOMAIN b) \ {key} |-> b[x] ]

With(b, key, val) == [ x \in (DOMAIN b) \cup {key} |-> IF x = key THEN val ELSE b[x] ]

\* documents with every required key
ValidBodies == { BodyA, BodyB }

\* documents whose times CronTrigger rejects (hour 24, minute 60)
BadTimeBodies == { With(BodyB, "PROMPT_HOUR", 24), With(BodyB, "SUMMARY_MINUTE", 60) }

\* documents lacking one required key
PartialBodies == { Without(BodyB, key) : key \in RequiredKeys }

StartDocs == { OkDoc(b) : b \in ValidBodies \cup BadTimeBodies }

EditDocs == { OkDoc(b) : b \in ValidBodies \cup BadTimeBodies \cup PartialBodies }
              \cup { MissingDoc, MalformedDoc }

\* -------------------------------------------------------- schedule resolver
today_weekday == isoweekday(now)

\* one vacation range: rng[0], rng[1] or _parse_date raises
RangeRaises(rng) == Len(rng) < 2 \/ ~DateOK(rng[1]) \/ ~DateOK(rng[2])

RangeHit(rng, d) == _parse_date(rng[1]) <= d /\ d <= _parse_date(rng[2])

RECURSIVE vacation_from(_, _, _)
vacation_from(ranges, i, d) ==
  IF i > Len(ranges) THEN FALSE
  ELSE IF RangeRaises(ranges[i]) THEN vacation_from(ranges, i + 1, d)
  ELSE IF RangeHit(ranges[i], d) THEN TRUE
  ELSE vacation_from(ranges, i + 1, d)

\* the same loop with the try around the whole loop instead of inside it
RECURSIVE vacation_from_abort(_, _, _)
vacation_from_abort(ranges, i, d) ==
  IF i > Len(ranges) THEN FALSE
  ELSE IF RangeRaises(ranges[i]) THEN FALSE
  ELSE IF RangeHit(ranges[i], d) THEN TRUE
  ELSE vacation_from_abort(ranges, i + 1, d)

is_on_vacation_abort(vac, name, d) == vacation_from_abort(DictGet(vac, name, << >>), 1, d)

\* is_on_vacation(name, d), reading the VACATIONS it is given
is_on_vacation(vac, name, d) == vacation_from(DictGet(vac, name, << >>), 1, d)

\* the comprehension of get_remote_today without its vacation test
remote_today_novac(ws, vac, d) ==
  LET keep(e) == isoweekday(d) \in SeqToSet(e.v)
      picked  == SelectSeq(ws, keep)
  IN  [ i \in DOMAIN picked |-> picked[i].k ]

\* get_remote_today(), reading the WEEKLY_SCHEDULE and VACATIONS it is given
remote_today(ws, vac, d) ==
  LET keep(e) == isoweekday(d) \in SeqToSet(e.v) /\ ~is_on_vacation(vac, e.k, d)
      picked  == SelectSeq(ws, keep)
  IN  [ i \in DOMAIN picked |-> picked[i].k ]

get_remote_today == remote_today(mem.WEEKLY_SCHEDULE, mem.VACATIONS, now)

\* ------------------------------------------------------ loading the config
\* CONFIG.get("VACITIONS", CONFIG.get("VACATIONS", {}))
VacationsOf(body) ==
  IF "VACITIONS" \in DOMAIN body THEN body["VACITIONS"]
  ELSE IF "VACATIONS" \in DOMAIN body THEN body["VACATIONS"]
  ELSE << >>

\* the module-level load: every required key is read, a missing one ends the import
LoadMirrors(body) ==
  [ CONFIG          |-> body,
    TEAM            |-> body["TEAM"],
    WEEKLY_SCHEDULE |-> body["WEEKLY_SCHEDULE"],
    VACATIONS       |-> VacationsOf(body),
    PROMPT_HOUR     |-> body["PROMPT_HOUR"],
    PROMPT_MINUTE   |-> body["PROMPT_MINUTE"],
    SUMMARY_HOUR    |-> body["SUMMARY_HOUR"],
    SUMMARY_MINUTE  |-> body["SUMMARY_MINUTE"],
    LIVE_SCRUM_AT   |-> body["LIVE_SCRUM_AT"] ]

\* the statements of cmd_cfg_reload's try block, in order: statement 1 loads
\* CONFIG, statements 2..9 rebind one mirror each from the global CONFIG
LastAssign == 9

ReloadKey(n) ==
  CASE n = 2 -> "TEAM"
    [] n = 3 -> "WEEKLY_SCHEDULE"
    [] n = 4 -> "VACATIONS"
    [] n = 5 -> "PROMPT_HOUR"
    [] n = 6 -> "PROMPT_MINUTE"
    [] n = 7 -> "SUMMARY_HOUR"
    [] n = 8 -> "SUMMARY_MINUTE"
    [] n = 9 -> "LIVE_SCRUM_AT"

\* statement n raises: _load_config_or_die on a missing or malformed file,
\* CONFIG[key] on a missing key (the .get of statement 4 never raises)
ReloadRaises(n, m, file) ==
  CASE n = 1 -> file.status # "ok"
    [] n = 4 -> FALSE
    [] OTHER -> ReloadKey(n) \notin DOMAIN m.CONFIG

\* the mirrors after statement n
ReloadAssign(n, m, file) ==
  CASE n = 1 -> [m EXCEPT !.CONFIG = file.body]
    [] n = 4 -> [m EXCEPT !.VACATIONS = VacationsOf(m.CONFIG)]
    [] OTHER -> [m EXCEPT ![ReloadKey(n)] = m.CONFIG[ReloadKey(n)]]

\* statements n..9 run to the end or to the first one that raises
RECURSIVE ReloadFrom(_, _, _)
ReloadFrom(n, m, file) ==
  IF n > LastAssign THEN [mem |-> m, ok |-> TRUE]
  ELSE IF ReloadRaises(n, m, file) THEN [mem |-> m, ok |-> FALSE]
  ELSE ReloadFrom(n + 1, ReloadAssign(n, m, file), file)

\* ---------------------------------------------------------------- scheduler
\* CronTrigger(hour=h, minute=mi) accepts the fields
CronOK(h, mi) == h \in 0..23 /\ mi \in 0..59

Job(id, h, mi) == [id |-> id, hour |-> h, minute |-> mi]

\* scheduler.add_job(..., id=id, replace_existing=True)
add_job(js, id, h, mi) ==
  IF \E i \in DOMAIN js : js[i].id = id
    THEN [ i \in DOMAIN js |-> IF js[i].id = id THEN Job(id, h, mi) ELSE js[i] ]
    ELSE Append(js, Job(id, h, mi))

\* reschedule_jobs(): the first CronTrigger or add_job that raises ends the
\* try block, and the except clause discards the exception
reschedule_jobs(js, m) ==
  IF ~CronOK(m.PROMPT_HOUR, m.PROMPT_MINUTE) THEN js
  ELSE LET j1 == add_job(js, "prompt", m.PROMPT_HOUR, m.PROMPT_MINUTE)
       IN  IF ~CronOK(m.SUMMARY_HOUR, m.SUMMARY_MINUTE) THEN j1
           ELSE add_job(j1, "summary", m.SUMMARY_HOUR, m.SUMMARY_MINUTE)

JobsWithId(id) == { i \in DOMAIN jobs : jobs[i].id = id }

\* ---------------------------------------------------------------- outcomes
\* what a finished handler or job leaves behind: the reply sent to the chat
\* ("none": no reply), whether an exception left the handler, for a recorded
\* text the member and the text (note), and for a job the direct messages and
\* the channel messages it sent and the chats the transport failed for (down)
Outcome(op, chat, reply, raised) ==
  [op |-> op, chat |-> chat, reply |-> reply, raised |-> raised,
   note |-> << >>, dms |-> << >>, channel |-> << >>, down |-> {}]

\* is_admin(chat_id)
is_admin(chat_id) == chat_id \in SeqToSet(adminsFile)

\* ------------------------------------------------------------- concurrency
\* TeleBot(BOT_TOKEN) hands each update's handler to a pool of two worker
\* threads; the scheduler runs each stored job in an executor thread, one
\* instance per job id at a time; /cron/... runs its job on the event loop
NumWorkers == 2
Workers    == 1..NumWorkers
Executors  == {"timer.prompt", "timer.summary", "loop"}

IdleWorker == [pc |-> "idle", kind |-> "none", chat |-> 0, name |-> "None",
               text |-> "", snap |-> << >>, n |-> 0]

\* what a send-prompts run has read of the mirrors so far (<< >>: not read)
NoneSeen == [TEAM |-> << >>, WEEKLY_SCHEDULE |-> << >>, VACATIONS |-> << >>,
             VACATIONS2 |-> << >>, SUMMARY |-> << >>, LIVE_SCRUM_AT |-> << >>]

IdleRun == [pc |-> "idle", job |-> "none", users |-> << >>, active |-> << >>,
            remote |-> << >>, sent |-> << >>, day |-> << >>, seen |-> NoneSeen]

Busy(r) == r.pc # "idle"

\* ------------------------------------------------------------------- Init
\* the state once the module is imported: the mirrors are loaded from a
\* config.json that has every required key (any other ends the import)
InitFull(docs, users, texts) ==
  /\ cfgFile \in docs
  /\ usersFile = users
  /\ answersFile = << >>
  /\ adminsFile = << >>
  /\ mem = LoadMirrors(cfgFile.body)
  /\ jobs = << >>
  /\ started = FALSE
  /\ now = FirstDay
  /\ last = Outcome("import", 0, "none", FALSE)
  /\ submitted = << >>
  /\ workers = [ w \in Workers |-> IdleWorker ]
  /\ runs = [ x \in Executors |-> IdleRun ]
  /\ budget = [edits |-> MaxEdits, days |-> MaxDays, msgs |-> texts,
               writes |-> MaxWrites, reloads |-> MaxReloads, runs |-> MaxRuns]

InitWith(docs, users) == InitFull(docs, users, MaxMsgs)

Init == InitWith(StartDocs, << >>)

\* ----------------------------------------------------------------- actions
\* on_start: reschedule_jobs(), scheduler.start()
on_start ==
  /\ ~started
  /\ started' = TRUE
  /\ jobs' = reschedule_jobs(jobs, mem)
  /\ last' = Outcome("on_start", 0, "none", FALSE)
  /\ UNCHANGED << cfgFile, usersFile, answersFile, adminsFile, mem, now,
                     submitted, workers, runs, budget >>

\* config.json is rewritten from outside the process
EditFileTo(doc) ==
  /\ budget.edits > 0
  /\ doc # cfgFile
  /\ cfgFile' = doc
  /\ budget' = [budget EXCEPT !.edits = @ - 1]
  /\ last' = Outcome("edit", 0, "none", FALSE)
  /\ UNCHANGED << usersFile, answersFile, adminsFile, mem, jobs, started,
                     now, submitted, workers, runs >>

EditFile == \E doc \in EditDocs : EditFileTo(doc)

\* midnight in TIMEZONE
AdvanceDay ==
  /\ budget.days > 0
  /\ now' = now + 1
  /\ budget' = [budget EXCEPT !.days = @ - 1]
  /\ last' = Outcome("midnight", 0, "none", FALSE)
  /\ UNCHANGED << cfgFile, usersFile, answersFile, adminsFile, mem, jobs,
                     started, submitted, workers, runs >>

\* /auth <PIN>
cmd_auth(msg, pin) ==
  /\ started
  /\ msg.type = "private"
  /\ adminsFile' = IF pin = ADMIN_PIN /\ ~is_admin(msg.id)
                     THEN Append(adminsFile, msg.id) ELSE adminsFile
  /\ last' = Outcome("auth", msg.id, IF pin = ADMIN_PIN THEN "admin_ok" ELSE "wrong_pin", FALSE)
  /\ UNCHANGED << cfgFile, usersFile, answersFile, mem, jobs, started, now,
                     submitted, workers, runs, budget >>

\* /cfg_reload
cmd_cfg_reload(msg) ==
  LET r == ReloadFrom(1, mem, cfgFile)
  IN  /\ started
      /\ mem' = r.mem
      /\ jobs' = IF r.ok THEN reschedule_jobs(jobs, r.mem) ELSE jobs
      /\ last' = Outcome("cfg_reload", msg.id,
                         IF r.ok THEN "reloaded" ELSE "reload_failed", FALSE)
      /\ UNCHANGED << cfgFile, usersFile, answersFile, adminsFile, started, now,
                     submitted, workers, runs, budget >>

\* ------------------------------------------------- admin commands (gated)
\* admin_only: a message outside a private chat is dropped without a reply,
\* a sender that is not in admins.json is told so, and fn does not run
AdminPass(msg) == msg.type = "private" /\ is_admin(msg.id)

Denied(op, msg) ==
  /\ last' = Outcome(op, msg.id, IF msg.type # "private" THEN "none" ELSE "need_admin", FALSE)
  /\ UNCHANGED << cfgFile, usersFile, answersFile, adminsFile, mem, jobs,
                     started, now, submitted, workers, runs, budget >>

\* the handler ends with only a reply, or with an exception leaving it
Reply(op, msg, reply) ==
  /\ last' = Outcome(op, msg.id, reply, FALSE)
  /\ UNCHANGED << cfgFile, usersFile, answersFile, adminsFile, mem, jobs,
                     started, now, submitted, workers, runs, budget >>

Raise(op, msg) ==
  /\ last' = Outcome(op, msg.id, "none", TRUE)
  /\ UNCHANGED << cfgFile, usersFile, answersFile, adminsFile, mem, jobs,
                     started, now, submitted, workers, runs, budget >>

\* a save that also rebinds the mirrors to the document written
Save_and_apply(op, msg, body, reply) ==
  /\ budget.writes > 0
  /\ cfgFile' = OkDoc(body)
  /\ mem' = LoadMirrors(body)
  /\ budget' = [budget EXCEPT !.writes = @ - 1]
  /\ last' = Outcome(op, msg.id, reply, FALSE)
  /\ UNCHANGED << usersFile, answersFile, adminsFile, jobs, started,
                     now, submitted, workers, runs >>

\* save_json(CONFIG_FILE, cfg), then the reply
Save(op, msg, body, reply) ==
  /\ budget.writes > 0
  /\ cfgFile' = OkDoc(body)
  /\ budget' = [budget EXCEPT !.writes = @ - 1]
  /\ last' = Outcome(op, msg.id, reply, FALSE)
  /\ UNCHANGED << usersFile, answersFile, adminsFile, mem, jobs, started,
                     now, submitted, workers, runs >>

\* cfg.get(key, default)
Get(body, key, default) == IF key \in DOMAIN body THEN body[key] ELSE default

\* _load_config_or_die() raises
LoadRaises == cfgFile.status # "ok"

\* /team_add <Ad>; args: the words after the command
cmd_team_add(msg, args) ==
  /\ started
  /\ IF ~AdminPass(msg) THEN Denied("team_add", msg)
     ELSE IF Len(args) < 1 THEN Reply("team_add", msg, "usage")
     ELSE IF LoadRaises THEN Raise("team_add", msg)
     ELSE LET name == args[1]
              cfg  == cfgFile.body
              team == Get(cfg, "TEAM", << >>)
              ws   == DictSetDefault(Get(cfg, "WEEKLY_SCHEDULE", << >>), name, << >>)
              vac  == DictSetDefault(Get(cfg, "VACATIONS", << >>), name, << >>)
          IN  IF canon_name(name, team) # "None" THEN Reply("team_add", msg, "exists")
              ELSE /\ Len(team) < MaxTeam
                   /\ Save("team_add", msg,
                           With(With(With(cfg, "TEAM", Append(team, name)),
                                     "WEEKLY_SCHEDULE", ws), "VACATIONS", vac), "ok")

\* /team_rm <Ad>
cmd_team_rm(msg, args) ==
  /\ started
  /\ IF ~AdminPass(msg) THEN Denied("team_rm", msg)
     ELSE IF Len(args) < 1 THEN Reply("team_rm", msg, "usage")
     ELSE IF LoadRaises THEN Raise("team_rm", msg)
     ELSE LET cfg  == cfgFile.body
              team == Get(cfg, "TEAM", << >>)
              name == canon_name(args[1], team)
              ws   == DictPop(Get(cfg, "WEEKLY_SCHEDULE", << >>), name)
              vac  == DictPop(Get(cfg, "VACATIONS", << >>), name)
          IN  IF name = "None" THEN Reply("team_rm", msg, "unknown_member")
              ELSE Save("team_rm", msg,
                        With(With(With(cfg, "TEAM", SelectSeq(team, LAMBDA t : t # name)),
                                  "WEEKLY_SCHEDULE", ws), "VACATIONS", vac), "ok")

\* [int(x) for x in ...] and the 1..7 test of cmd_sched_set go through
days_ok(toks) == \A i \in DOMAIN toks : toks[i].num /\ toks[i].val >= 1 /\ toks[i].val <= 7

\* /sched_set <Ad> <days>; args: the name, then the comma-separated tokens
cmd_sched_set(msg, args) ==
  /\ started
  /\ IF ~AdminPass(msg) THEN Denied("sched_set", msg)
     ELSE IF Len(args) < 2 THEN Reply("sched_set", msg, "usage")
     ELSE IF ~days_ok(args[2]) THEN Reply("sched_set", msg, "bad_days")
     ELSE IF LoadRaises THEN Raise("sched_set", msg)
     ELSE LET cfg  == cfgFile.body
              name == canon_name(args[1], Get(cfg, "TEAM", << >>))
              days == [ i \in DOMAIN args[2] |-> args[2][i].val ]
              ws   == DictSet(Get(cfg, "WEEKLY_SCHEDULE", << >>), name, days)
          IN  IF name = "None" THEN Reply("sched_set", msg, "unknown_member")
              ELSE Save("sched_set", msg, With(cfg, "WEEKLY_SCHEDULE", ws), "ok")

\* /vac_add <Ad> <YYYY-MM-DD> <YYYY-MM-DD>; the two _parse_date calls that
\* validate stand outside any try
cmd_vac_add(msg, args) ==
  /\ started
  /\ IF ~AdminPass(msg) THEN Denied("vac_add", msg)
     ELSE IF Len(args) < 3 THEN Reply("vac_add", msg, "usage")
     ELSE IF ~DateOK(args[2]) \/ ~DateOK(args[3]) THEN Raise("vac_add", msg)
     ELSE IF LoadRaises THEN Raise("vac_add", msg)
     ELSE LET cfg  == cfgFile.body
              name == canon_name(args[1], Get(cfg, "TEAM", << >>))
              vac  == Get(cfg, "VACATIONS", << >>)
              old  == DictGet(vac, name, << >>)
          IN  IF name = "None" THEN Reply("vac_add", msg, "unknown_member")
              ELSE /\ Len(old) < MaxRanges
                   /\ Save("vac_add", msg,
                           With(cfg, "VACATIONS",
                                DictSet(vac, name, Append(old, <<args[2], args[3]>>))), "ok")

\* /vac_rm <Ad> <YYYY-MM-DD> <YYYY-MM-DD>
cmd_vac_rm(msg, args) ==
  /\ started
  /\ IF ~AdminPass(msg) THEN Denied("vac_rm", msg)
     ELSE IF Len(args) < 3 THEN Reply("vac_rm", msg, "usage")
     ELSE IF LoadRaises THEN Raise("vac_rm", msg)
     ELSE LET cfg  == cfgFile.body
              name == canon_name(args[1], Get(cfg, "TEAM", << >>))
              vac  == Get(cfg, "VACATIONS", << >>)
              kept == SelectSeq(DictGet(vac, name, << >>),
                                LAMBDA rng : rng # <<args[2], args[3]>>)
          IN  IF name = "None" THEN Reply("vac_rm", msg, "unknown_member")
              ELSE Save("vac_rm", msg, With(cfg, "VACATIONS", DictSet(vac, name, kept)), "ok")

\* /time_set prompt|summary HH:MM; args: the words after the command, the
\* time being the tokens between its colons (one token: no colon)
cmd_time_set(msg, args) ==
  /\ started
  /\ IF ~AdminPass(msg) THEN Denied("time_set", msg)
     ELSE IF Len(args) # 2 \/ args[1] \notin {"prompt", "summary"} \/ Len(args[2]) < 2
       THEN Reply("time_set", msg, "usage")
     ELSE IF ~hhmm_ok(args[2]) THEN Raise("time_set", msg)
     ELSE IF LoadRaises THEN Raise("time_set", msg)
     ELSE LET cfg == cfgFile.body
              t   == parse_hhmm(args[2])
          IN  Save("time_set", msg,
                   IF args[1] = "prompt"
                     THEN With(With(cfg, "PROMPT_HOUR", t[1]), "PROMPT_MINUTE", t[2])
                     ELSE With(With(cfg, "SUMMARY_HOUR", t[1]), "SUMMARY_MINUTE", t[2]),
                   "ok")

\* /live_set HH:MM
cmd_live_set(msg, args) ==
  /\ started
  /\ IF ~AdminPass(msg) THEN Denied("live_set", msg)
     ELSE IF Len(args) < 1 \/ Len(args[1]) < 2 THEN Reply("live_set", msg, "usage")
     ELSE IF ~hhmm_ok(args[1]) THEN Raise("live_set", msg)
     ELSE IF LoadRaises THEN Raise("live_set", msg)
     ELSE Save("live_set", msg, With(cfgFile.body, "LIVE_SCRUM_AT", args[1]), "ok")

\* ------------------------------------------------------ command arguments
ArgNames  == {"aya", "Cem"}
ArgDays   == { << Tok(1), Tok(3) >>, << Tok(2), Tok(8) >>, << Junk >> }
ArgRanges == { << Jun(3), Jun(4) >>, << Jun(4), Jun(3) >>, << Jun(31), Jun(4) >> }
ArgTimes  == { << Tok(10), Tok(15) >>, << Tok(24), Tok(0) >>, << Tok(9), Junk >>, << Tok(9) >> }

\* admin_only never reads the arguments: for a sender it stops, one argument
\* stands for all of them
ArgsFor(msg, S) == IF AdminPass(msg) THEN S ELSE { CHOOSE x \in S : TRUE }

TeamAdd  == \E msg \in Senders : \E n \in ArgsFor(msg, ArgNames) : cmd_team_add(msg, <<n>>)
TeamRm   == \E msg \in Senders : \E n \in ArgsFor(msg, ArgNames) : cmd_team_rm(msg, <<n>>)
SchedSet == \E msg \in Senders : \E a \in ArgsFor(msg, ArgNames \X ArgDays) :
              cmd_sched_set(msg, <<a[1], a[2]>>)
VacAdd   == \E msg \in Senders : \E a \in ArgsFor(msg, ArgNames \X ArgRanges) :
              cmd_vac_add(msg, <<a[1], a[2][1], a[2][2]>>)
VacRm    == \E msg \in Senders : \E a \in ArgsFor(msg, ArgNames \X ArgRanges) :
              cmd_vac_rm(msg, <<a[1], a[2][1], a[2][2]>>)
TimeSet  == \E msg \in Senders : \E a \in ArgsFor(msg, {"prompt", "summary"} \X ArgTimes) :
              cmd_time_set(msg, <<a[1], a[2]>>)
LiveSet  == \E msg \in Senders : \E t \in ArgsFor(msg, ArgTimes) : cmd_live_set(msg, <<t>>)

\* ------------------------------------------------ registration and answers
RECURSIVE resolve_from(_, _, _)
resolve_from(users, chat_id, i) ==
  IF i > Len(users) THEN "None"
  ELSE IF users[i].v = chat_id THEN users[i].k
  ELSE resolve_from(users, chat_id, i + 1)

\* a lookup that does not compare the chat id: the first entry of users.json
resolve_any(users, chat_id) == IF users = << >> THEN "None" ELSE users[1].k

\* next((k for k, v in users.items() if v == chat_id), None)
resolve(users, chat_id) == resolve_from(users, chat_id, 1)

\* /register <Ad>: a private chat binds itself to the roster name
cmd_register(msg, args) ==
  /\ started
  /\ msg.type = "private"
  /\ IF Len(args) < 1 THEN Reply("register", msg, "usage")
     ELSE LET canon == canon_name(args[1], mem.TEAM)
          IN  IF canon = "None" THEN Reply("register", msg, "unknown_member")
              ELSE /\ usersFile' = DictSet(usersFile, canon, msg.id)
                   /\ last' = Outcome("register", msg.id, "registered", FALSE)
                   /\ UNCHANGED << cfgFile, answersFile, adminsFile, mem, jobs, started, now,
                     submitted, workers, runs, budget >>

\* the ledger write with the member's entry deleted and added again
Record_move(answers, today, name, text) ==
  LET withDay == DictSetDefault(answers, today, << >>)
      day     == DictPop(DictGet(withDay, today, << >>), name)
  IN  DictSet(withDay, today, DictSetAppend(day, name, text))

\* the ledger write with the member's entry added without looking for an old one
Record_dup(answers, today, name, text) ==
  LET withDay == DictSetDefault(answers, today, << >>)
  IN  DictSet(withDay, today, DictSetAppend(DictGet(withDay, today, << >>), name, text))

\* answers.setdefault(today, {}); answers[today][name] = text
Record(answers, today, name, text) ==
  LET withDay == DictSetDefault(answers, today, << >>)
  IN  DictSet(withDay, today, DictSet(DictGet(withDay, today, << >>), name, text))

\* Summary(date): answers.get(today, {})
Summary(answers, today) == DictGet(answers, today, << >>)

\* the acknowledgment of handle_private_text
Ack(name) == IF name \in SeqToSet(get_remote_today) THEN "thanks" ELSE "noted_not_remote"

\* a private text that is no command; ackOk: the transport delivers the
\* acknowledgment (reply_to raises otherwise, before the ledger is written)
handle_private_text(msg, text, ackOk) ==
  /\ started
  /\ msg.type = "private"
  /\ budget.msgs > 0
  /\ budget' = [budget EXCEPT !.msgs = @ - 1]
  /\ LET name == resolve(usersFile, msg.id)
     IN  IF name = "None"
           THEN /\ last' = Outcome("text", msg.id, "please_register", FALSE)
                /\ UNCHANGED << answersFile, submitted >>
         ELSE IF ~ackOk
           THEN /\ last' = Outcome("text", msg.id, "none", TRUE)
                /\ UNCHANGED << answersFile, submitted >>
         ELSE /\ answersFile' = Record(answersFile, today_str(now), name, strip(text))
              /\ submitted' = DictSet(submitted, <<today_str(now), name>>, strip(text))
              /\ last' = [ Outcome("text", msg.id, Ack(name), FALSE)
                            EXCEPT !.note = <<name, strip(text)>> ]
  /\ UNCHANGED << cfgFile, usersFile, adminsFile, mem, jobs, started, now,
                  workers, runs >>

\* -------------------------------------------------------------------- jobs
\* [m for m in TEAM if not is_on_vacation(m)]
active_team(team, vac, d) == SelectSeq(team, LAMBDA m : ~is_on_vacation(vac, m, d))

\* get_remote_today() taken as it is, without the test against active_team
remote_active_all(active, ws, vac, d) == remote_today(ws, vac, d)

\* [m for m in get_remote_today() if m in active_team]
remote_active(active, ws, vac, d) ==
  SelectSeq(remote_today(ws, vac, d), LAMBDA m : m \in SeqToSet(active))

\* [m for m in active_team if m not in remote_today]
non_remote(active, remote) == SelectSeq(active, LAMBDA m : m \notin SeqToSet(remote))

\* the same loop with the try around the whole loop: the first failed send
\* ends the batch
RECURSIVE sent_from_abort(_, _, _, _)
sent_from_abort(remote, users, down, i) ==
  IF i > Len(remote) THEN << >>
  ELSE IF ~DictHas(users, remote[i]) THEN sent_from_abort(remote, users, down, i + 1)
  ELSE IF DictGet(users, remote[i], 0) \in down THEN << >>
  ELSE << remote[i] >> \o sent_from_abort(remote, users, down, i + 1)

sent_to_abort(remote, users, down) == sent_from_abort(remote, users, down, 1)

\* the loop over remote_today: the members with a bound chat whose send went
\* through; down: the chats the transport fails for
sent_to(remote, users, down) ==
  SelectSeq(remote, LAMBDA m : DictHas(users, m) /\ DictGet(users, m, 0) \notin down)

DM(name, users, h, mi) == [to |-> DictGet(users, name, 0), name |-> name, deadline |-> <<h, mi>>]

Post(kind, names, at) == [kind |-> kind, names |-> names, at |-> at]

\* the channel messages of job_send_prompts
prompt_posts(sent, nonrem, live) ==
  << IF sent # << >> THEN Post("prompted", sent, << >>) ELSE Post("empty", << >>, << >>) >>
  \o (IF nonrem # << >> THEN << Post("live", nonrem, live) >> ELSE << >>)

\* what one run of job_send_prompts sends, reading the mirrors m
prompts_of(m, users, d, down) ==
  LET active == active_team(m.TEAM, m.VACATIONS, d)
      remote == remote_active(active, m.WEEKLY_SCHEDULE, m.VACATIONS, d)
      nonrem == non_remote(active, remote)
      sent   == sent_to(remote, users, down)
  IN  [ dms     |-> [ i \in DOMAIN sent |->
                        DM(sent[i], users, m.SUMMARY_HOUR, m.SUMMARY_MINUTE) ],
        channel |-> prompt_posts(sent, nonrem, m.LIVE_SCRUM_AT) ]

\* the channel message of job_post_summary
summary_posts(day_answers) ==
  << IF day_answers # << >> THEN Post("summary", day_answers, << >>)
                            ELSE Post("no_answers", << >>, << >>) >>

job_send_prompts(down) ==
  LET r == prompts_of(mem, usersFile, now, down)
  IN  /\ last' = [ Outcome("send_prompts", 0, "none", FALSE)
                   EXCEPT !.dms = r.dms, !.channel = r.channel, !.down = down ]
      /\ UNCHANGED << cfgFile, usersFile, answersFile, adminsFile, mem, jobs,
                     started, now, submitted, workers, runs, budget >>

job_post_summary ==
  /\ last' = [ Outcome("post_summary", 0, "none", FALSE)
                EXCEPT !.channel = summary_posts(Summary(answersFile, today_str(now))) ]
  /\ UNCHANGED << cfgFile, usersFile, answersFile, adminsFile, mem, jobs,
                     started, now, submitted, workers, runs, budget >>

Downs == { {}, {1}, {2} }

\* the scheduler fires a stored job: CronTrigger(day_of_week="mon-fri", ...)
TimerPrompt ==
  /\ started
  /\ today_weekday <= 5
  /\ \E i \in JobsWithId("prompt"), down \in Downs : job_send_prompts(down)

TimerSummary ==
  /\ started
  /\ today_weekday <= 5
  /\ \E i \in JobsWithId("summary") : job_post_summary

\* GET /cron/prompt, GET /cron/summary
cron_prompt == started /\ \E down \in Downs : job_send_prompts(down)

cron_summary == started /\ job_post_summary

Register    == \E msg \in Senders, n \in {"aya", "Bek", "Cem"} : cmd_register(msg, <<n>>)
PrivateText == \E msg \in Senders, t \in Texts, ackOk \in BOOLEAN :
                 handle_private_text(msg, t, ackOk)

\* /job: today's mode of every roster member
mode_of(member) ==
  IF is_on_vacation(mem.VACATIONS, member, now) THEN "vacation"
  ELSE IF member \in SeqToSet(get_remote_today) THEN "remote"
  ELSE "office"

cmd_job(msg) ==
  /\ started
  /\ last' = [ Outcome("job", msg.id, "schedule", FALSE)
                EXCEPT !.note = [ i \in DOMAIN mem.TEAM |-> mode_of(mem.TEAM[i]) ] ]
  /\ UNCHANGED << cfgFile, usersFile, answersFile, adminsFile, mem, jobs, started,
                  now, submitted, workers, runs, budget >>

JobInfo == \E msg \in Senders : cmd_job(msg)

Auth   == \E msg \in Senders, pin \in Pins : cmd_auth(msg, pin)
Reload == \E msg \in Senders : cmd_cfg_reload(msg)

Next ==
  \/ on_start
  \/ EditFile
  \/ AdvanceDay
  \/ Reload
  \/ JobInfo

Spec == Init /\ [][Next]_vars

\* -------------------------------------------- the handlers and jobs in steps
\* A handler runs in a worker thread and a job in an executor thread or on the
\* event loop: other threads run between their statements.  Each action below
\* is a stretch of one of them that reads or writes shared state once.

\* the pool hands a message to its first free worker thread
Free(w) == ~Busy(workers[w]) /\ \A v \in Workers : ~Busy(workers[v]) => w <= v

\* handle_private_text up to the acknowledgment: the sender is resolved
StartText(w, msg, text) ==
  /\ started
  /\ Free(w)
  /\ msg.type = "private"
  /\ budget.msgs > 0
  /\ budget' = [budget EXCEPT !.msgs = @ - 1]
  /\ LET name == resolve(usersFile, msg.id)
     IN  IF name = "None"
           THEN /\ last' = Outcome("text", msg.id, "please_register", FALSE)
                /\ UNCHANGED workers
           ELSE /\ workers' = [workers EXCEPT ![w] =
                                 [IdleWorker EXCEPT !.pc = "load", !.kind = "text",
                                    !.chat = msg.id, !.name = name, !.text = strip(text)]]
                /\ UNCHANGED last
  /\ UNCHANGED << cfgFile, usersFile, answersFile, adminsFile, mem, jobs, started, now,
                  submitted, runs >>

\* answers = load_json(ANSWERS_FILE, {})
LoadAnswers(w) ==
  /\ workers[w].pc = "load"
  /\ workers' = [workers EXCEPT ![w].snap = answersFile, ![w].pc = "save"]
  /\ UNCHANGED << cfgFile, usersFile, answersFile, adminsFile, mem, jobs, started, now,
                  last, submitted, runs, budget >>

\* the entry is set in the loaded dict, and save_json writes that dict
SaveAnswers(w) ==
  /\ workers[w].pc = "save"
  /\ answersFile' = Record(workers[w].snap, today_str(now), workers[w].name, workers[w].text)
  /\ submitted' = DictSet(submitted, <<today_str(now), workers[w].name>>, workers[w].text)
  /\ workers' = [workers EXCEPT ![w] = IdleWorker]
  /\ last' = [ Outcome("text", workers[w].chat, Ack(workers[w].name), FALSE)
                EXCEPT !.note = <<workers[w].name, workers[w].text>> ]
  /\ UNCHANGED << cfgFile, usersFile, adminsFile, mem, jobs, started, now, runs, budget >>

\* cmd_cfg_reload enters its try block
StartReload(w, msg) ==
  /\ started
  /\ Free(w)
  /\ budget.reloads > 0
  /\ budget' = [budget EXCEPT !.reloads = @ - 1]
  /\ workers' = [workers EXCEPT ![w] =
                   [IdleWorker EXCEPT !.pc = "reload", !.kind = "reload", !.chat = msg.id,
                                      !.n = 1]]
  /\ UNCHANGED << cfgFile, usersFile, answersFile, adminsFile, mem, jobs, started, now,
                  last, submitted, runs >>

\* the next statement of the try block: one of the nine assignments, then
\* reschedule_jobs() and the reply
ReloadStep(w) ==
  LET n == workers[w].n
  IN  /\ workers[w].pc = "reload"
      /\ IF n > LastAssign
            THEN /\ jobs' = reschedule_jobs(jobs, mem)
                 /\ last' = Outcome("cfg_reload", workers[w].chat, "reloaded", FALSE)
                 /\ workers' = [workers EXCEPT ![w] = IdleWorker]
                 /\ UNCHANGED mem
          ELSE IF ReloadRaises(n, mem, cfgFile)
            THEN /\ last' = Outcome("cfg_reload", workers[w].chat, "reload_failed", FALSE)
                 /\ workers' = [workers EXCEPT ![w] = IdleWorker]
                 /\ UNCHANGED << mem, jobs >>
          ELSE /\ mem' = ReloadAssign(n, mem, cfgFile)
               /\ workers' = [workers EXCEPT ![w].n = n + 1]
               /\ UNCHANGED << jobs, last >>
      /\ UNCHANGED << cfgFile, usersFile, answersFile, adminsFile, started, now,
                      submitted, runs, budget >>

FirstPc(job) == IF job = "prompt" THEN "p1" ELSE "s1"

\* the scheduler's wakeup, on the event loop, submits a stored job to the
\* executor: mon-fri, at most one running instance per job id
StartTimer(job) ==
  /\ started
  /\ today_weekday <= 5
  /\ JobsWithId(job) # {}
  /\ ~Busy(runs["loop"])
  /\ ~Busy(runs["timer." \o job])
  /\ budget.runs > 0
  /\ budget' = [budget EXCEPT !.runs = @ - 1]
  /\ runs' = [runs EXCEPT !["timer." \o job] = [IdleRun EXCEPT !.pc = FirstPc(job), !.job = job]]
  /\ UNCHANGED << cfgFile, usersFile, answersFile, adminsFile, mem, jobs, started, now,
                  last, submitted, workers >>

\* GET /cron/<job>: the endpoint calls the job function on the event loop
StartCron(job) ==
  /\ started
  /\ ~Busy(runs["loop"])
  /\ budget.runs > 0
  /\ budget' = [budget EXCEPT !.runs = @ - 1]
  /\ runs' = [runs EXCEPT !["loop"] = [IdleRun EXCEPT !.pc = FirstPc(job), !.job = job]]
  /\ UNCHANGED << cfgFile, usersFile, answersFile, adminsFile, mem, jobs, started, now,
                  last, submitted, workers >>

\* the next stretch of the job executor x is running
RunStep(x) ==
  LET r == runs[x]
  IN  /\ Busy(r)
      /\ CASE r.pc = "p1" ->
               /\ runs' = [runs EXCEPT ![x] =
                     [r EXCEPT !.pc = "p2", !.users = usersFile,
                               !.active = active_team(mem.TEAM, mem.VACATIONS, now),
                               !.seen.TEAM = mem.TEAM, !.seen.VACATIONS = mem.VACATIONS]]
               /\ UNCHANGED last
           [] r.pc = "p2" ->
               /\ runs' = [runs EXCEPT ![x] =
                     [r EXCEPT !.pc = "p3",
                               !.remote = remote_active(r.active, mem.WEEKLY_SCHEDULE,
                                                        mem.VACATIONS, now),
                               !.seen.WEEKLY_SCHEDULE = mem.WEEKLY_SCHEDULE,
                               !.seen.VACATIONS2 = mem.VACATIONS]]
               /\ UNCHANGED last
           [] r.pc = "p3" ->
               \* make_scrum_prompt() reads the summary time for each message sent
               /\ LET sent == sent_to(r.remote, r.users, {})
                  IN  runs' = [runs EXCEPT ![x] =
                        [r EXCEPT !.pc = "p4", !.sent = sent,
                                  !.seen.SUMMARY = IF sent = << >> THEN << >>
                                                   ELSE <<mem.SUMMARY_HOUR, mem.SUMMARY_MINUTE>>]]
               /\ UNCHANGED last
           [] r.pc = "p4" ->
               \* LIVE_SCRUM_AT is read only for the post about the non-remote members
               /\ runs' = [runs EXCEPT ![x] = IdleRun]
               /\ last' = [ Outcome("send_prompts", 0, "none", FALSE)
                             EXCEPT !.note = [r.seen EXCEPT !.LIVE_SCRUM_AT =
                                               IF non_remote(r.active, r.remote) = << >>
                                                 THEN << >> ELSE mem.LIVE_SCRUM_AT],
                                    !.dms = [ i \in DOMAIN r.sent |->
                                                DM(r.sent[i], r.users, r.seen.SUMMARY[1],
                                                   r.seen.SUMMARY[2]) ],
                                    !.channel = prompt_posts(r.sent,
                                                  non_remote(r.active, r.remote),
                                                  mem.LIVE_SCRUM_AT) ]
           [] r.pc = "s1" ->
               /\ runs' = [runs EXCEPT ![x] =
                     [r EXCEPT !.pc = "s2", !.day = Summary(answersFile, today_str(now))]]
               /\ UNCHANGED last
           [] r.pc = "s2" ->
               /\ runs' = [runs EXCEPT ![x] = IdleRun]
               /\ last' = [ Outcome("post_summary", 0, "none", FALSE)
                             EXCEPT !.channel = summary_posts(r.day) ]
      /\ UNCHANGED << cfgFile, usersFile, answersFile, adminsFile, mem, jobs, started,
                      now, submitted, workers, budget >>

EditValid == \E doc \in { OkDoc(b) : b \in ValidBodies } : EditFileTo(doc)

TextArrives   == \E w \in Workers, msg \in Senders, t \in Texts : StartText(w, msg, t)
TextLoads     == \E w \in Workers : LoadAnswers(w)
TextSaves     == \E w \in Workers : SaveAnswers(w)
ReloadArrives == \E w \in Workers, msg \in Senders : StartReload(w, msg)
ReloadRuns    == \E w \in Workers : ReloadStep(w)
TimerFires    == \E job \in {"prompt", "summary"} : StartTimer(job)
CronCalled    == \E job \in {"prompt", "summary"} : StartCron(job)
JobRuns       == \E x \in Executors : RunStep(x)

\* the jobs and the reload against each other, with the users.json an earlier
\* run of the process has left behind
InitReaders == InitWith({ OkDoc(BodyA) }, << E("Aya", 1), E("Bek", 2) >>)

NextReaders ==
  \/ on_start
  \/ EditValid
  \/ ReloadArrives
  \/ ReloadRuns
  \/ TimerFires
  \/ CronCalled
  \/ JobRuns

SpecReaders == InitReaders /\ [][NextReaders]_vars

\* the text handlers against each other
InitLedger == InitWith({ OkDoc(BodyA) }, << >>)

NextLedger ==
  \/ on_start
  \/ Register
  \/ TextArrives
  \/ TextLoads
  \/ TextSaves

SpecLedger == InitLedger /\ [][NextLedger]_vars

\* the admin commands against a config.json nobody edits from outside
InitAdmin == InitWith({ OkDoc(BodyA), OkDoc(BodyB) }, << >>)

NextAdmin ==
  \/ on_start
  \/ Auth
  \/ Reload
  \/ TeamAdd
  \/ TeamRm
  \/ SchedSet
  \/ VacAdd
  \/ VacRm
  \/ TimeSet
  \/ LiveSet

SpecAdmin == InitAdmin /\ [][NextAdmin]_vars

\* the daily workflow under a configuration that stays as loaded
InitJobs == InitWith({ OkDoc(b) : b \in ValidBodies }, << >>)

NextJobs ==
  \/ on_start
  \/ AdvanceDay
  \/ Register
  \/ PrivateText
  \/ TimerPrompt
  \/ TimerSummary
  \/ cron_prompt
  \/ cron_summary

SpecJobs == InitJobs /\ [][NextJobs]_vars

\* the answers of one day and their summary, with the users.json an earlier
\* run of the process has left behind
InitSummary == InitFull({ OkDoc(BodyA) }, << E("Aya", 1), E("Bek", 2) >>, MaxTexts)

NextSummary ==
  \/ on_start
  \/ AdvanceDay
  \/ PrivateText
  \/ TimerSummary
  \/ cron_summary

SpecSummary == InitSummary /\ [][NextSummary]_vars

\* the prompt job alone, over rosters, registrations and transport failures
InitPrompts == InitWith({ OkDoc(BodyA), OkDoc(BodyB), OkDoc(BodyC) }, << >>)

NextPrompts ==
  \/ on_start
  \/ AdvanceDay
  \/ Register
  \/ TimerPrompt
  \/ cron_prompt

SpecPrompts == InitPrompts /\ [][NextPrompts]_vars

\* =================================================================== claims
\* the mirrors the documentation lists: roster, weekly schedule, vacations,
\* prompt time, summary time, live-scrum time
Mirrors ==
  << mem.TEAM, mem.WEEKLY_SCHEDULE, mem.VACATIONS, mem.PROMPT_HOUR, mem.PROMPT_MINUTE,
     mem.SUMMARY_HOUR, mem.SUMMARY_MINUTE, mem.LIVE_SCRUM_AT >>

\* config.json is missing, malformed or lacks a required key
InvalidDoc(file) == file.status # "ok" \/ ~(RequiredKeys \subseteq DOMAIN file.body)

\* C1: a reload against a missing, malformed or incomplete config.json leaves
\* every mirror and both triggers as they were and reports an error.
C1_ReloadAllOrNothing ==
  [][ (Reload /\ InvalidDoc(cfgFile))
        => (Mirrors' = Mirrors /\ jobs' = jobs /\ last'.reply = "reload_failed") ]_vars

\* the configuration-administration commands, as sent by msg
AdminCommandBy(msg) ==
  \/ cmd_cfg_reload(msg)
  \/ \E n \in ArgNames : cmd_team_add(msg, <<n>>) \/ cmd_team_rm(msg, <<n>>)
  \/ \E n \in ArgNames, d \in ArgDays : cmd_sched_set(msg, <<n, d>>)
  \/ \E n \in ArgNames, r \in ArgRanges :
       cmd_vac_add(msg, <<n, r[1], r[2]>>) \/ cmd_vac_rm(msg, <<n, r[1], r[2]>>)
  \/ \E w \in {"prompt", "summary"}, t \in ArgTimes : cmd_time_set(msg, <<w, t>>)
  \/ \E t \in ArgTimes : cmd_live_set(msg, <<t>>)

\* C2: a configuration-administration command from a sender outside the
\* admin set changes neither config.json nor a mirror nor a trigger.
C2_NonAdminNoEffect ==
  [][ (\E msg \in Senders : ~is_admin(msg.id) /\ AdminCommandBy(msg))
        => (cfgFile' = cfgFile /\ mem' = mem /\ jobs' = jobs) ]_vars

HasJob(id, h, mi) == \E i \in DOMAIN jobs : jobs[i] = Job(id, h, mi)

\* C3: when a reload has reported success, the stored 'prompt' and 'summary'
\* triggers carry the times of the mirrors, which are those of config.json.
C3_SuccessMeansRegistered ==
  (last.op = "cfg_reload" /\ last.reply = "reloaded")
    => /\ HasJob("prompt", mem.PROMPT_HOUR, mem.PROMPT_MINUTE)
       /\ HasJob("summary", mem.SUMMARY_HOUR, mem.SUMMARY_MINUTE)
       /\ mem.PROMPT_HOUR = cfgFile.body["PROMPT_HOUR"]
       /\ mem.PROMPT_MINUTE = cfgFile.body["PROMPT_MINUTE"]
       /\ mem.SUMMARY_HOUR = cfgFile.body["SUMMARY_HOUR"]
       /\ mem.SUMMARY_MINUTE = cfgFile.body["SUMMARY_MINUTE"]

\* the mirrors a configuration document gives, as a send-prompts run reads them
VersionOf(b) ==
  LET m == LoadMirrors(b)
  IN  [TEAM |-> m.TEAM, WEEKLY_SCHEDULE |-> m.WEEKLY_SCHEDULE, VACATIONS |-> m.VACATIONS,
       VACATIONS2 |-> m.VACATIONS, SUMMARY |-> <<m.SUMMARY_HOUR, m.SUMMARY_MINUTE>>,
       LIVE_SCRUM_AT |-> m.LIVE_SCRUM_AT]

\* C4: the roster, weekly schedule, vacations, summary time and live-scrum
\* time a send-prompts run has read all belong to one configuration version,
\* also when the run interleaves with a reload.
C4_ReadersSeeOneVersion ==
  last.op = "send_prompts"
    => \E b \in ValidBodies :
         \A f \in DOMAIN NoneSeen : last.note[f] = << >> \/ last.note[f] = VersionOf(b)[f]

InFlight(w) == workers[w].pc \in {"load", "save"}

\* C5: once the text handlers have finished, the ledger holds, for every
\* (date, member) a text was recorded for, that member's entry with the text
\* recorded last for it: no answer of a concurrent handler is lost.
C5_NoAnswerLost ==
  (\A w \in Workers : ~InFlight(w))
    => \A p \in DictKeys(submitted) :
         DictGet(Summary(answersFile, p[1]), p[2], "None") = DictGet(submitted, p, "None")

\* C6: a run of a job called through /cron/<job> and a run of the same job
\* fired by its trigger are never executing at the same time.
C6_SameJobSerialized ==
  \A job \in {"prompt", "summary"} :
    ~(Busy(runs["timer." \o job]) /\ Busy(runs["loop"]) /\ runs["loop"].job = job)

\* C7: once started, the job store holds exactly one trigger with id 'prompt'
\* and exactly one with id 'summary', whatever reloads have happened.
C7_OneTriggerPerId ==
  started => /\ Cardinality(JobsWithId("prompt")) = 1
             /\ Cardinality(JobsWithId("summary")) = 1

\* the dates the resolver is asked about: around the days the clock reaches
Dates == (FirstDay - 1)..(FirstDay + MaxDays + 1)

ScheduledOn(ws, d) == { m \in DictKeys(ws) : isoweekday(d) \in SeqToSet(DictGet(ws, m, << >>)) }

\* C8: for every date, RemoteToday is the set of members whose weekly-schedule
\* entry contains the weekday, minus the members on vacation that date; a
\* member absent from the weekly schedule is never in it.
C8_RemoteTodayIsScheduleMinusVacation ==
  \A d \in Dates :
    LET ws     == mem.WEEKLY_SCHEDULE
        result == SeqToSet(remote_today(ws, mem.VACATIONS, d))
    IN  /\ result = ScheduledOn(ws, d)
                      \ { m \in Names : is_on_vacation(mem.VACATIONS, m, d) }
        /\ \A m \in Names : m \notin DictKeys(ws) => m \notin result
        /\ d = now => SeqToSet(get_remote_today) = result

C8_Witness ==
  /\ last.op = "job"
  /\ \E m \in ScheduledOn(mem.WEEKLY_SCHEDULE, now) : is_on_vacation(mem.VACATIONS, m, now)
  /\ \E m \in ScheduledOn(mem.WEEKLY_SCHEDULE, now) : m \in SeqToSet(get_remote_today)

\* a range with two parseable dates, the first not after the second, around d
Covers(rng, d) ==
  /\ Len(rng) >= 2
  /\ DateOK(rng[1]) /\ DateOK(rng[2])
  /\ _parse_date(rng[1]) <= d /\ d <= _parse_date(rng[2])

\* C9: IsOnVacation(m, d) is true exactly when one of m's ranges is
\* well-formed and has start <= d <= end; unparseable, short and inverted
\* ranges match nothing and do not stop a later range from matching.
C9_VacationIffSomeValidRange ==
  \A m \in Names, d \in Dates :
    LET ranges == DictGet(mem.VACATIONS, m, << >>)
    IN  is_on_vacation(mem.VACATIONS, m, d) <=> \E i \in DOMAIN ranges : Covers(ranges[i], d)

C9_Witness ==
  /\ last.op = "job" /\ "vacation" \in SeqToSet(last.note)
  /\ \E m \in Names :
       LET ranges == DictGet(mem.VACATIONS, m, << >>)
       IN  /\ is_on_vacation(mem.VACATIONS, m, now)
           /\ \E i, j \in DOMAIN ranges : i < j /\ RangeRaises(ranges[i]) /\ Covers(ranges[j], now)

EntriesOf(day, m) == { i \in DOMAIN day : day[i].k = m }

\* C10: Record is an upsert keyed by (date, member): recording a text twice
\* equals recording it once, of two texts only the later stays, and Summary
\* holds one entry per member, only for members a text was recorded for.
C10_RecordIsUpsert ==
  /\ NoDupKeys(answersFile)
  /\ \A d \in DictKeys(answersFile) :
       LET day == Summary(answersFile, d)
       IN  \A m \in DictKeys(day) : /\ DictHas(submitted, <<d, m>>)
                                    /\ Cardinality(EntriesOf(day, m)) = 1
  /\ (last.op = "text" /\ last.note # << >>)
       => DictGet(Summary(answersFile, today_str(now)), last.note[1], "") = last.note[2]
  /\ \A d \in { today_str(now) }, m \in Names, t1, t2 \in { strip(t) : t \in Texts } :
       LET once  == Record(answersFile, d, m, t1)
           twice == Record(once, d, m, t1)
           both  == Record(once, d, m, t2)
       IN  /\ twice = once
           /\ both = Record(answersFile, d, m, t2)
           /\ Cardinality(EntriesOf(Summary(both, d), m)) = 1
           /\ DictGet(Summary(both, d), m, "") = t2

\* a member's second, different text of the day has been recorded
C10_Witness ==
  /\ last.op = "text" /\ last.note # << >>
  /\ budget.msgs = 0
  /\ Len(submitted) = 1
  /\ last.note[2] = "blocked"
  /\ Len(Summary(answersFile, today_str(now))) = 1

\* what job_send_prompts computes from the mirrors today
ActiveNow  == active_team(mem.TEAM, mem.VACATIONS, now)
RemoteNow  == remote_active(ActiveNow, mem.WEEKLY_SCHEDULE, mem.VACATIONS, now)
NonRemNow  == non_remote(ActiveNow, RemoteNow)

\* C11: a send-prompts run with an empty remoteToday sends no direct message
\* and posts exactly one channel message, the one saying the list is empty.
C11_EmptyRemoteOnePost ==
  (last.op = "send_prompts" /\ RemoteNow = << >>)
    => /\ last.dms = << >>
       /\ Len(last.channel) = 1
       /\ last.channel[1].kind = "empty"

\* the members of the sequence of records posts, by their field name
NamesOf(posts) == { posts[i].name : i \in DOMAIN posts }

\* the members of today's remote list whose chat is bound and reachable
Reached == { m \in SeqToSet(RemoteNow) :
               DictHas(usersFile, m) /\ DictGet(usersFile, m, 0) \notin last.down }

BadTime(t) ==
  \/ Len(t) # 2
  \/ \E i \in DOMAIN t : ~t[i].num
  \/ t[1].val \notin 0..23
  \/ t[2].val \notin 0..59

BadDays(ds) == \E i \in DOMAIN ds : ~ds[i].num \/ ds[i].val \notin 1..7

BadDate(s) == ~DateOK(s)

NotInRoster(n) ==
  cfgFile.status = "ok" /\ "TEAM" \in DOMAIN cfgFile.body
    /\ \A i \in DOMAIN cfgFile.body["TEAM"] : Lower(cfgFile.body["TEAM"][i]) # Lower(n)

\* a set-time, set-weekly-days or add-vacation command the claims want rejected
RejectedCommand ==
  \E msg \in Senders :
    /\ msg.id = last'.chat
    /\ \/ /\ last'.op = "time_set"
          /\ \E w \in {"prompt", "summary"}, t \in ArgTimes :
               BadTime(t) /\ cmd_time_set(msg, <<w, t>>)
       \/ /\ last'.op = "sched_set"
          /\ \E n \in ArgNames, d \in ArgDays :
               (BadDays(d) \/ NotInRoster(n)) /\ cmd_sched_set(msg, <<n, d>>)
       \/ /\ last'.op = "vac_add"
          /\ \E n \in ArgNames, r \in ArgRanges :
               (BadDate(r[1]) \/ BadDate(r[2]) \/ NotInRoster(n))
                 /\ cmd_vac_add(msg, <<n, r[1], r[2]>>)

\* C13: a set-time command with a time out of range, a set-weekly-days command
\* with a day outside 1..7 or not a number, an add-vacation command with an
\* invalid date, or one of these naming nobody of the roster, leaves
\* config.json as it was.
C13_RejectedCommandKeepsFile ==
  [][ RejectedCommand => cfgFile' = cfgFile ]_vars

\* an admin whose earlier command was saved has had a command rejected
C13_Witness ==
  /\ is_admin(last.chat)
  /\ budget.writes < MaxWrites
  /\ \/ last.op = "time_set" /\ last.raised
     \/ last.op = "sched_set" /\ last.reply = "bad_days"
     \/ last.op = "vac_add" /\ last.raised

\* an admin's command whose argument fails validation
InvalidAdminCommand ==
  \E msg \in Senders :
    /\ msg.id = last'.chat
    /\ AdminPass(msg)
    /\ \/ /\ last'.op = "time_set"
          /\ \E w \in {"prompt", "summary"}, t \in ArgTimes :
               BadTime(t) /\ cmd_time_set(msg, <<w, t>>)
       \/ /\ last'.op = "live_set"
          /\ \E t \in ArgTimes : BadTime(t) /\ cmd_live_set(msg, <<t>>)
       \/ /\ last'.op = "vac_add"
          /\ \E n \in ArgNames, r \in ArgRanges :
               (BadDate(r[1]) \/ BadDate(r[2])) /\ cmd_vac_add(msg, <<n, r[1], r[2]>>)
       \/ /\ last'.op = "sched_set"
          /\ \E n \in ArgNames, d \in ArgDays :
               BadDays(d) /\ cmd_sched_set(msg, <<n, d>>)

\* C14: an admin command whose time, date or day fails validation ends
\* normally with an error reply to the admin: no exception leaves the handler.
C14_ValidationErrorIsAnswered ==
  [][ InvalidAdminCommand => (~last'.raised /\ last'.reply \notin {"none", "ok"}) ]_vars

\* no member of users.json is bound to the chat
Unbound(chat_id) == \A i \in DOMAIN usersFile : usersFile[i].v # chat_id

\* a private text that is no command, from a chat bound to no member
TextFromUnbound ==
  /\ last'.op = "text"
  /\ \E msg \in Senders, t \in Texts, ackOk \in BOOLEAN :
       /\ msg.id = last'.chat
       /\ Unbound(msg.id)
       /\ handle_private_text(msg, t, ackOk)

\* C15: a private text from a chat bound to no member is answered with the
\* 'please register' reply and leaves answers.json as it was.
C15_UnboundTextIsRejected ==
  [][ TextFromUnbound => (answersFile' = answersFile /\ last'.reply = "please_register") ]_vars

\* an unbound chat has written while the ledger held answers of others
C15_Witness ==
  /\ last.op = "text" /\ last.reply = "please_register"
  /\ Unbound(last.chat)
  /\ answersFile # << >>
  /\ usersFile # << >>

\* the ranges /vac_add has stored in config.json for member m
AddedRanges(m) ==
  IF cfgFile.status = "ok" /\ "VACATIONS" \in DOMAIN cfgFile.body
    THEN SeqToSet(DictGet(cfgFile.body["VACATIONS"], m, << >>))
    ELSE {}

\* C16: once a reload has succeeded, every range (a, b) with a <= b that an
\* admin has added for a roster member is in force: the member is on vacation
\* on every date from a to b and is not in RemoteToday of that date.
C16_AddedVacationHoldsAfterReload ==
  (last.op = "cfg_reload" /\ last.reply = "reloaded")
    => \A m \in SeqToSet(mem.TEAM) : \A r \in AddedRanges(m) :
         (Len(r) = 2 /\ DateOK(r[1]) /\ DateOK(r[2]))
           => \A d \in _parse_date(r[1]).._parse_date(r[2]) :
                /\ is_on_vacation(mem.VACATIONS, m, d)
                /\ m \notin SeqToSet(remote_today(mem.WEEKLY_SCHEDULE, mem.VACATIONS, d))

\* the members users.json binds to the chat
BoundTo(chat_id) == { usersFile[i].k : i \in { j \in DOMAIN usersFile : usersFile[j].v = chat_id } }

\* the handling of a private text t that is no command, from a bound chat
TextFromBound(msg, t) ==
  /\ last'.op = "text"
  /\ msg.id = last'.chat
  /\ BoundTo(msg.id) # {}
  /\ \E ackOk \in BOOLEAN : handle_private_text(msg, t, ackOk)

\* C17: once the handling of a private text from a chat bound to member m has
\* ended, the ledger entry of (today, m) is the trimmed text and the day's
\* summary holds exactly one entry for m, whether or not m is remote today and
\* whether or not the acknowledgment could be sent.
C17_BoundTextIsRecorded ==
  [][ \A msg \in Senders, t \in Texts :
        TextFromBound(msg, t)
          => \E m \in BoundTo(msg.id) :
               LET day == Summary(answersFile', today_str(now))
               IN  /\ DictGet(day, m, "None") = strip(t)
                   /\ Cardinality(EntriesOf(day, m)) = 1 ]_vars

\* the members a text was recorded for on date d, in the order of their
\* first recorded text
FirstOrder(d) ==
  LET ofDay == SelectSeq(submitted, LAMBDA e : e.k[1] = d)
  IN  [ i \in DOMAIN ofDay |-> ofDay[i].k[2] ]

KeySeq(dict) == [ i \in DOMAIN dict |-> dict[i].k ]

OnVacationToday ==
  { m \in SeqToSet(mem.TEAM) :
      LET ranges == DictGet(mem.VACATIONS, m, << >>)
      IN  \E i \in DOMAIN ranges : Covers(ranges[i], now) }

ActiveRoster == SeqToSet(mem.TEAM) \ OnVacationToday

\* the members a run's messages name: the prompted, and those of the
\* live-scrum message
Prompted(out) == NamesOf(out.dms)

InReport(out) == SeqToSet(out.channel[1].names)

InLive(out) == IF Len(out.channel) >= 2 THEN SeqToSet(out.channel[2].names) ELSE {}

\* C19: in a run of SendPrompts remoteToday and nonRemote are disjoint and
\* together are the roster minus the members on vacation today; nobody on
\* vacation and nobody outside the roster is prompted or named in a channel
\* message, and nobody is both prompted and named in the live-scrum message.
C19_RecipientsPartitionActiveRoster ==
  last.op = "send_prompts"
    => /\ SeqToSet(RemoteNow) \cap SeqToSet(NonRemNow) = {}
       /\ SeqToSet(RemoteNow) \cup SeqToSet(NonRemNow) = ActiveRoster
       /\ Prompted(last) \subseteq SeqToSet(RemoteNow)
       /\ InReport(last) \subseteq SeqToSet(RemoteNow)
       /\ InLive(last) = SeqToSet(NonRemNow)
       /\ (Prompted(last) \cup InReport(last) \cup InLive(last)) \subseteq ActiveRoster
       /\ Prompted(last) \cap InLive(last) = {}

\* a run that prompted somebody while a scheduled roster member was on
\* vacation and a scheduled name was not in the roster
C19_Witness ==
  /\ last.op = "send_prompts"
  /\ last.dms # << >>
  /\ OnVacationToday \cap ScheduledOn(mem.WEEKLY_SCHEDULE, now) # {}
  /\ ScheduledOn(mem.WEEKLY_SCHEDULE, now) \ SeqToSet(mem.TEAM) # {}

\* the roster config.json holds, and whether its names differ ignoring case
RosterOf(file) ==
  IF file.status = "ok" /\ "TEAM" \in DOMAIN file.body THEN file.body["TEAM"] ELSE << >>

UniqueRoster(file) ==
  \A i, j \in DOMAIN RosterOf(file) :
    Lower(RosterOf(file)[i]) = Lower(RosterOf(file)[j]) => i = j

\* the members with an entry in the weekly schedule or in a vacation mapping
\* of config.json, under either spelling of the key
EntriesIn(file) ==
  UNION { DictKeys(file.body[key]) :
            key \in {"WEEKLY_SCHEDULE", "VACATIONS", "VACITIONS"} \cap DOMAIN file.body }

\* C20: a roster with no two names equal ignoring case stays so under the
\* add-member and remove-member commands; adding a name that matches an
\* existing one ignoring case leaves config.json unchanged; removing a member
\* removes the member's weekly-schedule and vacation entries too.
C20_RosterStaysUnique ==
  [][ /\ UniqueRoster(cfgFile) => UniqueRoster(cfgFile')
      /\ last'.op = "team_add"
           => \A msg \in Senders, n \in ArgNames :
                (cmd_team_add(msg, <<n>>) /\ ~NotInRoster(n)) => cfgFile' = cfgFile
      /\ (last'.op = "team_rm" /\ last'.reply = "ok")
           => \A m \in SeqToSet(RosterOf(cfgFile)) \ SeqToSet(RosterOf(cfgFile')) :
                m \notin EntriesIn(cfgFile') ]_vars

\* the commands that change config.json
MutationOps == {"team_add", "team_rm", "sched_set", "vac_add", "vac_rm", "time_set", "live_set"}

\* C21: a successful add/remove-member, set-days, add/remove-vacation,
\* set-time or set-live-time command leaves every mirror and both triggers as
\* they were, so RemoteToday and the trigger times stay those of the previous
\* configuration; the mirrors and triggers change only at startup and reload.
C21_MutationOnlyWritesFile ==
  [][ /\ (last'.op \in MutationOps /\ last'.reply = "ok")
           => /\ Mirrors' = Mirrors
              /\ jobs' = jobs
              /\ get_remote_today' = get_remote_today
      /\ (Mirrors' # Mirrors \/ jobs' # jobs) => last'.op \in {"on_start", "cfg_reload"} ]_vars

\* a saved command has left config.json different from the mirrors the
\* registered triggers and the resolver still use
C21_Witness ==
  /\ last.op \in MutationOps /\ last.reply = "ok"
  /\ HasJob("prompt", mem.PROMPT_HOUR, mem.PROMPT_MINUTE)
  /\ HasJob("summary", mem.SUMMARY_HOUR, mem.SUMMARY_MINUTE)
  /\ \/ cfgFile.body["TEAM"] # mem.TEAM
     \/ cfgFile.body["WEEKLY_SCHEDULE"] # mem.WEEKLY_SCHEDULE
     \/ cfgFile.body["PROMPT_HOUR"] # mem.PROMPT_HOUR
     \/ cfgFile.body["LIVE_SCRUM_AT"] # mem.LIVE_SCRUM_AT

====
